---- MODULE Spec2Model ----
(***************************************************************************)
(* The movie review REST API: the Express handlers of routes/movieRoutes.js*)
(* (mounted by app.js), of the single-file server with Swagger and of      *)
(* moby.js, over one MongoDB collection of Movie documents accessed        *)
(* through Mongoose.  One action per endpoint; every action is the whole   *)
(* handler: body validation, the single store call, the status mapping.    *)
(*                                                                         *)
(* JSON numbers are modelled with one fractional bit: [int |-> n, half |-> *)
(* b] is n + b/2.  A JSON object is a record whose domain holds exactly    *)
(* the keys that are present (a missing key reads as undefined).  Titles   *)
(* are sequences of character codes, compared as MongoDB compares strings. *)
(* ObjectIds are positive integers handed out by two counters; the path    *)
(* token Malformed is a string no ObjectId can be cast from.               *)
(***************************************************************************)
EXTENDS Integers, Sequences, FiniteSets, TLC

VARIABLES variant, movies, nextMovieId, nextReviewId, last, inflight,
          isConnected, connectCalls, invocation

\* The state of the serverless entry point (api/index.js).
serverlessVars == <<isConnected, connectCalls, invocation>>

vars == <<variant, movies, nextMovieId, nextReviewId, last, inflight,
          isConnected, connectCalls, invocation>>

\* ------------------------------------------------------------- bounds
MaxMovieIds == 2
MaxReviewIds == 2
MaxConnectCalls == 3

\* ---------------------------------------------------------- constants
RatingMin == 1
RatingMax == 5

Malformed == 0

\* The two Movie models of the repository: "app" is the schema of src/app.js,
\* whose reviews carry an _id, served by routes/movieRoutes.js and, declared
\* again word for word, by the single-file server; "moby" is src/moby.js.
Variants == {"app", "moby"}

\* The two servers over the "app" model.  Their handlers are the same but for
\* one test of PATCH, so which of them answers a PATCH is an input of the
\* request.
PatchServers == {"movieRoutes", "swaggerApp"}

MovieIdParams == {Malformed} \cup (1..MaxMovieIds)
ReviewIdParams == {Malformed} \cup (1..MaxReviewIds)

Num(n, h) == [int |-> n, half |-> h]

EmptyObject == [k \in {} |-> TRUE]

TitleValues == {<<>>, <<1, 2>>, <<2>>}
RatingValues == {Num(0, FALSE), Num(2, TRUE), Num(5, FALSE), Num(6, FALSE)}
CommentValues == {"", "x"}

MovieBodies == {EmptyObject} \cup {[title |-> t] : t \in TitleValues}

ReviewBodies ==
    {EmptyObject}
        \cup {[rating |-> r] : r \in RatingValues}
        \cup {[comment |-> c] : c \in CommentValues}
        \cup {[rating |-> r, comment |-> c] : r \in RatingValues, c \in CommentValues}

\* ------------------------------------------------- JavaScript helpers
Has(obj, key) == key \in DOMAIN obj

\* !title for a string-or-undefined value
FalsyString(obj, key) == ~Has(obj, key) \/ Len(obj[key]) = 0

\* !comment for a string-or-undefined value
FalsyComment(obj) == ~Has(obj, "comment") \/ obj.comment = ""

\* !rating for a number-or-undefined value
FalsyNumber(obj) == ~Has(obj, "rating") \/ obj.rating = Num(0, FALSE)

\* x < n and x > n for a JSON number x and an integer literal n
NumLess(x, n) == x.int < n
NumGreater(x, n) == x.int > n \/ (x.int = n /\ x.half)

IsInteger(x) == ~x.half

RECURSIVE LexLess(_, _)
LexLess(a, b) ==
    IF Len(b) = 0 THEN FALSE
    ELSE IF Len(a) = 0 THEN TRUE
    ELSE IF Head(a) # Head(b) THEN Head(a) < Head(b)
    ELSE LexLess(Tail(a), Tail(b))

LexLeq(a, b) == a = b \/ LexLess(a, b)


\* ------------------------------------------------------ Mongoose layer
\* The outcome of one model call: it threw, or it resolved to a document
\* (docs = <<d>>) or to null (docs = <<>>); coll is the collection after it.
Threw(coll) == [threw |-> TRUE, docs |-> <<>>, coll |-> coll]
Resolved(docs, coll) == [threw |-> FALSE, docs |-> docs, coll |-> coll]

\* Cast of a path token to ObjectId: a CastError for a malformed token.
CastsToObjectId(token) == token # Malformed

HasReviewIds == variant # "moby"

ById(coll, id) == {m \in coll : m.id = id}

\* title: { type: String, required: true, unique: true }
TitleRequiredOk(title) == Len(title) > 0
\* Mutant: the schema without the unique index on title.
TitleUniqueOkNoIndex(coll, id, title) == TRUE

TitleUniqueOk(coll, id, title) == \A m \in coll : m.title = title => m.id = id

\* rating: { type: Number, required: true, min: 1, max: 5 }
RatingValidatorOk(rating) ==
    ~NumLess(rating, RatingMin) /\ ~NumGreater(rating, RatingMax)

\* comment: { type: String, required: true }
CommentRequiredOk(comment) == comment # ""

NewMovie(id, title) == [id |-> id, title |-> title, reviews |-> <<>>]

NewReview(id, body) ==
    IF HasReviewIds
    THEN [id |-> id, rating |-> body.rating, comment |-> body.comment]
    ELSE [rating |-> body.rating, comment |-> body.comment]

\* new Movie({ title }).save()
Save(title, fault) ==
    IF fault \/ ~TitleRequiredOk(title) \/ ~TitleUniqueOk(movies, nextMovieId, title)
    THEN Threw(movies)
    ELSE LET doc == NewMovie(nextMovieId, title)
         IN  Resolved(<<doc>>, movies \cup {doc})

RECURSIVE SortByTitle(_)
SortByTitle(coll) ==
    IF coll = {} THEN <<>>
    ELSE LET m == CHOOSE x \in coll : \A y \in coll : LexLeq(x.title, y.title)
         IN  <<m>> \o SortByTitle(coll \ {m})

RECURSIVE NaturalOrder(_)
NaturalOrder(coll) ==
    IF coll = {} THEN <<>>
    ELSE LET m == CHOOSE x \in coll : \A y \in coll : x.id <= y.id
         IN  <<m>> \o NaturalOrder(coll \ {m})

\* Mutant: Movie.find() without the sort.
FindUnsorted(fault) ==
    IF fault THEN Threw(movies) ELSE Resolved(NaturalOrder(movies), movies)

\* Movie.find().sort({ title: 1 })
FindSorted(fault) ==
    IF fault THEN Threw(movies) ELSE Resolved(SortByTitle(movies), movies)

SetToSeq(S) == IF S = {} THEN <<>> ELSE <<CHOOSE x \in S : TRUE>>

\* Mutant: findById resolving to null for an id it cannot cast.
FindByIdLenient(id, fault) ==
    IF fault THEN Threw(movies)
    ELSE Resolved(SetToSeq(ById(movies, id)), movies)

\* Movie.findById(id)
FindById(id, fault) ==
    IF fault \/ ~CastsToObjectId(id) THEN Threw(movies)
    ELSE Resolved(SetToSeq(ById(movies, id)), movies)

\* Mutant: the update replaces the document by { title }.
FindByIdAndUpdateTitleOverwrite(id, title, fault) ==
    IF fault \/ ~CastsToObjectId(id) \/ ~TitleRequiredOk(title) THEN Threw(movies)
    ELSE IF ById(movies, id) = {} THEN Resolved(<<>>, movies)
    ELSE IF ~TitleUniqueOk(movies, id, title) THEN Threw(movies)
    ELSE LET old == CHOOSE m \in movies : m.id = id
             new == NewMovie(id, title)
         IN  Resolved(<<new>>, (movies \ {old}) \cup {new})

\* Movie.findByIdAndUpdate(id, { title }, { new: true, runValidators: true })
FindByIdAndUpdateTitle(id, title, fault) ==
    IF fault \/ ~CastsToObjectId(id) \/ ~TitleRequiredOk(title) THEN Threw(movies)
    ELSE IF ById(movies, id) = {} THEN Resolved(<<>>, movies)
    ELSE IF ~TitleUniqueOk(movies, id, title) THEN Threw(movies)
    ELSE LET old == CHOOSE m \in movies : m.id = id
             new == [old EXCEPT !.title = title]
         IN  Resolved(<<new>>, (movies \ {old}) \cup {new})

\* Movie.findByIdAndDelete(id)
FindByIdAndDelete(id, fault) ==
    IF fault \/ ~CastsToObjectId(id) THEN Threw(movies)
    ELSE IF ById(movies, id) = {} THEN Resolved(<<>>, movies)
    ELSE LET old == CHOOSE m \in movies : m.id = id
         IN  Resolved(<<old>>, movies \ {old})

\* Mutant: the push without { new: true } resolves to the document as it was.
FindByIdAndPushReturnsOld(id, body, fault) ==
    IF fault \/ ~CastsToObjectId(id) THEN Threw(movies)
    ELSE IF ById(movies, id) = {} THEN Resolved(<<>>, movies)
    ELSE LET old == CHOOSE m \in movies : m.id = id
             new == [old EXCEPT !.reviews = Append(@, NewReview(nextReviewId, body))]
         IN  Resolved(<<old>>, (movies \ {old}) \cup {new})

\* Mutant: the new review is put at the head of the array ($position: 0).
FindByIdAndPushFront(id, body, fault) ==
    IF fault \/ ~CastsToObjectId(id) THEN Threw(movies)
    ELSE IF ById(movies, id) = {} THEN Resolved(<<>>, movies)
    ELSE LET old == CHOOSE m \in movies : m.id = id
             new == [old EXCEPT !.reviews = <<NewReview(nextReviewId, body)>> \o @]
         IN  Resolved(<<new>>, (movies \ {old}) \cup {new})

\* Mutant: the reviews array is written whole ($set: { reviews: [review] }).
FindByIdAndPushOverwrite(id, body, fault) ==
    IF fault \/ ~CastsToObjectId(id) THEN Threw(movies)
    ELSE IF ById(movies, id) = {} THEN Resolved(<<>>, movies)
    ELSE LET old == CHOOSE m \in movies : m.id = id
             new == [old EXCEPT !.reviews = <<NewReview(nextReviewId, body)>>]
         IN  Resolved(<<new>>, (movies \ {old}) \cup {new})

\* Movie.findByIdAndUpdate(id, { $push: { reviews: { rating, comment } } },
\*                         { new: true })
FindByIdAndPush(id, body, fault) ==
    IF fault \/ ~CastsToObjectId(id) THEN Threw(movies)
    ELSE IF ById(movies, id) = {} THEN Resolved(<<>>, movies)
    ELSE LET old == CHOOSE m \in movies : m.id = id
             new == [old EXCEPT !.reviews = Append(@, NewReview(nextReviewId, body))]
         IN  Resolved(<<new>>, (movies \ {old}) \cup {new})

ReviewIndexes(m, reviewId) ==
    {i \in 1..Len(m.reviews) : m.reviews[i].id = reviewId}

\* Mutant: the matched review is replaced by the body, a field the body does
\* not supply falling back to a default.
SetFieldsReplace(review, updateFields) ==
    [k \in DOMAIN review |->
        IF k \in DOMAIN updateFields THEN updateFields[k]
        ELSE IF k = "rating" THEN Num(RatingMin, FALSE)
        ELSE IF k = "comment" THEN "-"
        ELSE review[k]]

\* $set of reviews.$.rating / reviews.$.comment on one embedded review
SetFields(review, updateFields) ==
    [k \in DOMAIN review |->
        IF k \in DOMAIN updateFields THEN updateFields[k] ELSE review[k]]

UpdateValidatorsOk(updateFields) ==
    /\ Has(updateFields, "rating") => RatingValidatorOk(updateFields.rating)
    /\ Has(updateFields, "comment") => CommentRequiredOk(updateFields.comment)

\* Mutant: the filter of update-review names the review id only.
FindOneAndUpdateReviewAnyMovie(movieId, reviewId, updateFields, fault) ==
    IF \/ fault
       \/ ~CastsToObjectId(movieId)
       \/ ~CastsToObjectId(reviewId)
       \/ ~UpdateValidatorsOk(updateFields)
    THEN Threw(movies)
    ELSE LET match == {m \in movies : ReviewIndexes(m, reviewId) # {}}
         IN  IF match = {} THEN Resolved(<<>>, movies)
             ELSE LET old == CHOOSE m \in match : TRUE
                      i == CHOOSE j \in ReviewIndexes(old, reviewId) :
                               \A k \in ReviewIndexes(old, reviewId) : j <= k
                      new == [old EXCEPT !.reviews[i] = SetFields(@, updateFields)]
                  IN  Resolved(<<new>>, (movies \ {old}) \cup {new})

\* Mutant: the all-positional operator (reviews.$[]) in place of the
\* positional one: every review of the matched Movie is updated.
FindOneAndUpdateReviewAllElements(movieId, reviewId, updateFields, fault) ==
    IF \/ fault
       \/ ~CastsToObjectId(movieId)
       \/ ~CastsToObjectId(reviewId)
       \/ ~UpdateValidatorsOk(updateFields)
    THEN Threw(movies)
    ELSE LET match == {m \in ById(movies, movieId) : ReviewIndexes(m, reviewId) # {}}
         IN  IF match = {} THEN Resolved(<<>>, movies)
             ELSE LET old == CHOOSE m \in match : TRUE
                      new == [old EXCEPT !.reviews =
                                 [j \in 1..Len(old.reviews) |->
                                     SetFields(old.reviews[j], updateFields)]]
                  IN  Resolved(<<new>>, (movies \ {old}) \cup {new})

\* Movie.findOneAndUpdate({ _id: movieId, 'reviews._id': reviewId },
\*                        { $set: updateFields }, { new: true, runValidators: true })
FindOneAndUpdateReview(movieId, reviewId, updateFields, fault) ==
    IF \/ fault
       \/ ~CastsToObjectId(movieId)
       \/ ~CastsToObjectId(reviewId)
       \/ ~UpdateValidatorsOk(updateFields)
    THEN Threw(movies)
    ELSE LET match == {m \in ById(movies, movieId) : ReviewIndexes(m, reviewId) # {}}
         IN  IF match = {} THEN Resolved(<<>>, movies)
             ELSE LET old == CHOOSE m \in match : TRUE
                      i == CHOOSE j \in ReviewIndexes(old, reviewId) :
                               \A k \in ReviewIndexes(old, reviewId) : j <= k
                      new == [old EXCEPT !.reviews[i] = SetFields(@, updateFields)]
                  IN  Resolved(<<new>>, (movies \ {old}) \cup {new})

Pull(reviews, reviewId) == SelectSeq(reviews, LAMBDA r : r.id # reviewId)

\* Movie.findByIdAndUpdate(movieId, { $pull: { reviews: { _id: reviewId } } },
\*                         { new: true })
FindByIdAndPull(movieId, reviewId, fault) ==
    IF fault \/ ~CastsToObjectId(movieId) \/ ~CastsToObjectId(reviewId)
    THEN Threw(movies)
    ELSE IF ById(movies, movieId) = {} THEN Resolved(<<>>, movies)
    ELSE LET old == CHOOSE m \in movies : m.id = movieId
             new == [old EXCEPT !.reviews = Pull(@, reviewId)]
         IN  Resolved(<<new>>, (movies \ {old}) \cup {new})


\* ------------------------------------------------------- handler layer
\* What a handler did: the response (status, json), the collection it
\* leaves, and the number of store calls it issued before responding.
Respond(status, json, coll, calls) ==
    [status |-> status, json |-> json, coll |-> coll, calls |-> calls]

Message(text) == [message |-> text]

\* router.get('/movies')
ListMoviesHandler(fault) ==
    LET r == FindSorted(fault)
    IN  IF r.threw THEN Respond(500, Message("err.message"), r.coll, 1)
        ELSE Respond(200, r.docs, r.coll, 1)

\* Mutant: get-movie without the null check.
GetMovieHandlerNoNullCheck(id, fault) ==
    LET r == FindById(id, fault)
    IN  IF r.threw THEN Respond(500, Message("err.message"), r.coll, 1)
        ELSE IF r.docs = <<>> THEN Respond(200, EmptyObject, r.coll, 1)
        ELSE Respond(200, r.docs[1], r.coll, 1)

\* router.get('/movies/:id')
GetMovieHandler(id, fault) ==
    LET r == FindById(id, fault)
    IN  IF r.threw THEN Respond(500, Message("err.message"), r.coll, 1)
        ELSE IF r.docs = <<>> THEN Respond(404, Message("MOVIE NOT FOUND!"), r.coll, 1)
        ELSE Respond(200, r.docs[1], r.coll, 1)

\* Mutant: create-movie answering with the default status.
CreateMovieHandlerDefaultStatus(body, fault) ==
    IF FalsyString(body, "title")
    THEN Respond(400, Message("TITLE REQUIRED!"), movies, 0)
    ELSE LET r == Save(body.title, fault)
         IN  IF r.threw THEN Respond(400, Message("err.message"), r.coll, 1)
             ELSE Respond(200, r.docs[1], r.coll, 1)

\* router.post('/movies')
CreateMovieHandler(body, fault) ==
    IF FalsyString(body, "title")
    THEN Respond(400, Message("TITLE REQUIRED!"), movies, 0)
    ELSE LET r == Save(body.title, fault)
         IN  IF r.threw THEN Respond(400, Message("err.message"), r.coll, 1)
             ELSE Respond(201, r.docs[1], r.coll, 1)

\* Mutant: update-title that looks the Movie up before it tests the title.
UpdateTitleHandlerLookupFirst(id, body, fault) ==
    LET f == FindById(id, fault)
    IN  IF f.threw THEN Respond(500, Message("err.message"), f.coll, 1)
        ELSE IF f.docs = <<>>
        THEN Respond(404, Message("MOVIE NOT FOUND!"), f.coll, 1)
        ELSE IF FalsyString(body, "title")
        THEN Respond(400, Message("NEW TITLE REQUIRED!"), f.coll, 1)
        ELSE LET r == FindByIdAndUpdateTitle(id, body.title, fault)
             IN  IF r.threw THEN Respond(400, Message("err.message"), r.coll, 2)
                 ELSE Respond(200, r.docs[1], r.coll, 2)

\* router.put('/movies/:id')
UpdateTitleHandler(id, body, fault) ==
    IF FalsyString(body, "title")
    THEN Respond(400, Message("NEW TITLE REQUIRED!"), movies, 0)
    ELSE LET r == FindByIdAndUpdateTitle(id, body.title, fault)
         IN  IF r.threw THEN Respond(400, Message("err.message"), r.coll, 1)
             ELSE IF r.docs = <<>>
             THEN Respond(404, Message("MOVIE NOT FOUND!"), r.coll, 1)
             ELSE Respond(200, r.docs[1], r.coll, 1)

\* router.delete('/movies/:id')
DeleteMovieHandler(id, fault) ==
    LET r == FindByIdAndDelete(id, fault)
    IN  IF r.threw THEN Respond(500, Message("err.message"), r.coll, 1)
        ELSE IF r.docs = <<>> THEN Respond(404, Message("MOVIE NOT FOUND!"), r.coll, 1)
        ELSE Respond(200, r.docs[1], r.coll, 1)

\* Mutant: list-reviews that answers with the Movie's title and no reviews.
ListReviewsHandlerTitleOnly(id, fault) ==
    LET r == FindById(id, fault)
    IN  IF r.threw THEN Respond(500, Message("err.message"), r.coll, 1)
        ELSE IF r.docs = <<>> THEN Respond(404, Message("MOVIE NOT FOUND!"), r.coll, 1)
        ELSE Respond(200,
                     [movieId |-> id, title |-> r.docs[1].title, reviews |-> <<>>],
                     r.coll, 1)

\* router.get('/movies/:id/reviews')
ListReviewsHandler(id, fault) ==
    LET r == FindById(id, fault)
    IN  IF r.threw THEN Respond(500, Message("err.message"), r.coll, 1)
        ELSE IF r.docs = <<>> THEN Respond(404, Message("MOVIE NOT FOUND!"), r.coll, 1)
        ELSE Respond(200,
                     [movieId |-> id, title |-> r.docs[1].title,
                      reviews |-> r.docs[1].reviews],
                     r.coll, 1)

\* Mutant: add-review validation without the upper bound on rating.
AddReviewInvalidNoUpperBound(body) ==
    \/ ~Has(body, "rating")
    \/ ~Has(body, "comment")
    \/ NumLess(body.rating, RatingMin)

\* rating === undefined || comment === undefined || rating < 1 || rating > 5
AddReviewInvalid(body) ==
    \/ ~Has(body, "rating")
    \/ ~Has(body, "comment")
    \/ NumLess(body.rating, RatingMin)
    \/ NumGreater(body.rating, RatingMax)

\* Mutant: add-review that looks the Movie up before it validates the body.
AddReviewHandlerLookupFirst(id, body, fault) ==
    LET f == FindById(id, fault)
    IN  IF f.threw THEN Respond(400, Message("err.message"), f.coll, 1)
        ELSE IF f.docs = <<>>
        THEN Respond(404, Message("MOVIE NOT FOUND!"), f.coll, 1)
        ELSE IF AddReviewInvalid(body)
        THEN Respond(400, Message("INVALID COMMENT AND/OR RATING!"), f.coll, 1)
        ELSE LET r == FindByIdAndPush(id, body, fault)
             IN  IF r.threw THEN Respond(400, Message("err.message"), r.coll, 2)
                 ELSE Respond(200, r.docs[1], r.coll, 2)

\* router.post('/movies/:id/reviews')
AddReviewHandler(id, body, fault) ==
    IF AddReviewInvalid(body)
    THEN Respond(400, Message("INVALID COMMENT AND/OR RATING!"), movies, 0)
    ELSE LET r == FindByIdAndPush(id, body, fault)
         IN  IF r.threw THEN Respond(400, Message("err.message"), r.coll, 1)
             ELSE IF r.docs = <<>>
             THEN Respond(404, Message("MOVIE NOT FOUND!"), r.coll, 1)
             ELSE Respond(200, r.docs[1], r.coll, 1)

\* (rating !== undefined && (rating < 1 || rating > 5)) ||
\*     (rating === undefined && comment === undefined)      in movieRoutes.js
\* (rating !== undefined && (rating < 1 || rating > 5)) ||
\*     (!rating && !comment)                                in the single-file server
UpdateReviewInvalid(server, body) ==
    \/ /\ Has(body, "rating")
       /\ NumLess(body.rating, RatingMin) \/ NumGreater(body.rating, RatingMax)
    \/ IF server = "movieRoutes"
       THEN ~Has(body, "rating") /\ ~Has(body, "comment")
       ELSE FalsyNumber(body) /\ FalsyComment(body)

\* updateFields['reviews.$.rating'] = rating; updateFields['reviews.$.comment'] = comment
UpdateFields(body) == [k \in DOMAIN body \cap {"rating", "comment"} |-> body[k]]

\* router.patch('/movies/:movieId/reviews/:reviewId')
UpdateReviewHandler(server, movieId, reviewId, body, fault) ==
    IF UpdateReviewInvalid(server, body)
    THEN Respond(400, Message("INVALID RATING (must be 1-5) OR MISSING DATA."), movies, 0)
    ELSE LET r == FindOneAndUpdateReview(movieId, reviewId, UpdateFields(body), fault)
         IN  IF r.threw THEN Respond(400, Message("err.message"), r.coll, 1)
             ELSE IF r.docs = <<>>
             THEN Respond(404, Message("MOVIE or REVIEW NOT FOUND!"), r.coll, 1)
             ELSE Respond(200, r.docs[1], r.coll, 1)

\* Mutant: delete-review answering 404 when the pull removed nothing.
DeleteReviewHandlerNotFoundOnMiss(movieId, reviewId, fault) ==
    LET r == FindByIdAndPull(movieId, reviewId, fault)
    IN  IF r.threw THEN Respond(500, Message("err.message"), r.coll, 1)
        ELSE IF r.docs = <<>> \/ r.coll = movies
        THEN Respond(404, Message("MOVIE NOT FOUND!"), r.coll, 1)
        ELSE Respond(200, r.docs[1], r.coll, 1)

\* router.delete('/movies/:movieId/reviews/:reviewId')
DeleteReviewHandler(movieId, reviewId, fault) ==
    LET r == FindByIdAndPull(movieId, reviewId, fault)
    IN  IF r.threw THEN Respond(500, Message("err.message"), r.coll, 1)
        ELSE IF r.docs = <<>> THEN Respond(404, Message("MOVIE NOT FOUND!"), r.coll, 1)
        ELSE Respond(200, r.docs[1], r.coll, 1)

\* ------------------------------------------------------------- actions
NoRequest ==
    [op |-> "none", params |-> EmptyObject, body |-> EmptyObject, fault |-> FALSE,
     status |-> 0, json |-> EmptyObject, calls |-> 0]

\* One request served from arrival to response: last holds what was asked
\* and what was answered until the client has read the response.  The client
\* sends its next request after reading the previous response; the handlers
\* share nothing but the collection, and each issues one atomic store call.
Serve(op, params, body, fault, h) ==
    /\ fault => h.calls > 0
    /\ movies' = h.coll
    /\ last' = [op |-> op, params |-> params, body |-> body, fault |-> fault,
                status |-> h.status, json |-> h.json, calls |-> h.calls]
    /\ UNCHANGED <<variant, inflight, serverlessVars>>

\* The requests that reach the serverless function.
Invocations == {1, 2, 3}

\* let isConnected = false: a fresh instance of the function, no request yet.
ColdStart ==
    /\ isConnected = FALSE
    /\ connectCalls = 0
    /\ invocation = [i \in Invocations |-> [pc |-> "idle", called |-> FALSE]]

\* The clients that send requests without waiting for one another.
Clients == {1, 2}

\* A client that has sent nothing yet.
Idle ==
    [pc |-> "idle", id |-> Malformed, body |-> EmptyObject, fault |-> FALSE,
     status |-> 0, json |-> EmptyObject]

\* No overlapping requests: before is the collection when the overlapping
\* requests start, oplog the clients in the order the store applied their
\* appends, read the latest exchange of a reader.
NoInflight ==
    [before |-> {}, oplog |-> <<>>, req |-> [c \in Clients |-> Idle],
     read |-> NoRequest]

Init ==
    /\ variant \in Variants
    /\ movies = {}
    /\ nextMovieId = 1
    /\ nextReviewId = 1
    /\ last = NoRequest
    /\ inflight = NoInflight
    /\ ColdStart

ListMovies ==
    /\ last = NoRequest
    /\ \E fault \in BOOLEAN :
        /\ Serve("listMovies", EmptyObject, EmptyObject, fault, ListMoviesHandler(fault))
        /\ UNCHANGED <<nextMovieId, nextReviewId>>

GetMovie ==
    /\ last = NoRequest
    /\ \E id \in MovieIdParams, fault \in BOOLEAN :
        /\ Serve("getMovie", [id |-> id], EmptyObject, fault, GetMovieHandler(id, fault))
        /\ UNCHANGED <<nextMovieId, nextReviewId>>

CreateMovie ==
    /\ last = NoRequest
    /\ \E body \in MovieBodies, fault \in BOOLEAN :
        LET h == CreateMovieHandler(body, fault)
        IN  /\ h.status = 201 => nextMovieId <= MaxMovieIds
            /\ Serve("createMovie", EmptyObject, body, fault, h)
            /\ nextMovieId' = IF h.status = 201 THEN nextMovieId + 1 ELSE nextMovieId
            /\ UNCHANGED nextReviewId

UpdateTitle ==
    /\ last = NoRequest
    /\ \E id \in MovieIdParams, body \in MovieBodies, fault \in BOOLEAN :
        /\ Serve("updateTitle", [id |-> id], body, fault,
                 UpdateTitleHandler(id, body, fault))
        /\ UNCHANGED <<nextMovieId, nextReviewId>>

DeleteMovie ==
    /\ last = NoRequest
    /\ \E id \in MovieIdParams, fault \in BOOLEAN :
        /\ Serve("deleteMovie", [id |-> id], EmptyObject, fault,
                 DeleteMovieHandler(id, fault))
        /\ UNCHANGED <<nextMovieId, nextReviewId>>

ListReviews ==
    /\ last = NoRequest
    /\ \E id \in MovieIdParams, fault \in BOOLEAN :
        /\ variant # "moby"
        /\ Serve("listReviews", [id |-> id], EmptyObject, fault,
                 ListReviewsHandler(id, fault))
        /\ UNCHANGED <<nextMovieId, nextReviewId>>

AddReview ==
    /\ last = NoRequest
    /\ \E id \in MovieIdParams, body \in ReviewBodies, fault \in BOOLEAN :
        LET h == AddReviewHandler(id, body, fault)
        IN  /\ h.status = 200 => nextReviewId <= MaxReviewIds
            /\ Serve("addReview", [id |-> id], body, fault, h)
            /\ nextReviewId' = IF h.status = 200 THEN nextReviewId + 1 ELSE nextReviewId
            /\ UNCHANGED nextMovieId

\* The bodies sent to PATCH: no field, one field, or a rating of 5 with a
\* comment.
PatchBodies ==
    {b \in ReviewBodies :
        (Has(b, "rating") /\ Has(b, "comment")) =>
            (b.comment = "x" /\ b.rating = Num(5, FALSE))}

UpdateReview ==
    /\ last = NoRequest
    /\ \E server \in PatchServers, movieId \in MovieIdParams,
       reviewId \in ReviewIdParams, body \in PatchBodies, fault \in BOOLEAN :
        /\ variant # "moby"
        /\ Serve("updateReview", [movieId |-> movieId, reviewId |-> reviewId], body,
                 fault, UpdateReviewHandler(server, movieId, reviewId, body, fault))
        /\ UNCHANGED <<nextMovieId, nextReviewId>>

DeleteReview ==
    /\ last = NoRequest
    /\ \E movieId \in MovieIdParams, reviewId \in ReviewIdParams, fault \in BOOLEAN :
        /\ variant # "moby"
        /\ Serve("deleteReview", [movieId |-> movieId, reviewId |-> reviewId],
                 EmptyObject, fault, DeleteReviewHandler(movieId, reviewId, fault))
        /\ UNCHANGED <<nextMovieId, nextReviewId>>

\* The client reads the response.
ClientReceives ==
    /\ last # NoRequest
    /\ last' = NoRequest
    /\ UNCHANGED <<variant, movies, nextMovieId, nextReviewId, inflight, serverlessVars>>

Next ==
    \/ ListMovies
    \/ GetMovie
    \/ CreateMovie
    \/ UpdateTitle
    \/ DeleteMovie
    \/ ListReviews
    \/ AddReview
    \/ UpdateReview
    \/ DeleteReview
    \/ ClientReceives

Spec == Init /\ [][Next]_vars

\* Overlapping add-review requests.  Node runs the synchronous part of a
\* handler (the validation) when the request arrives, the store applies the
\* findByIdAndUpdate the handler awaits as one document-level operation at
\* some later moment, and the rest of the handler runs when the result is
\* back.  The run starts from a collection the sequential run reaches: one
\* Movie holding no Review or one Review.
ConcInit ==
    /\ variant \in Variants
    /\ \E prior \in {<<>>, <<NewReview(1, [rating |-> Num(5, FALSE), comment |-> "x"])>>} :
        /\ movies = {[NewMovie(1, <<2>>) EXCEPT !.reviews = prior]}
        /\ nextReviewId = Len(prior) + 1
    /\ nextMovieId = 2
    /\ last = NoRequest
    /\ inflight = [NoInflight EXCEPT !.before = movies]
    /\ ColdStart

\* The bodies the overlapping requests carry: two valid ones that differ, one
\* with an out-of-range rating and one without rating.
OverlapBodies ==
    {b \in ReviewBodies :
        /\ Has(b, "comment") /\ b.comment = "x"
        /\ Has(b, "rating") => b.rating # Num(0, FALSE)}

\* router.post('/movies/:id/reviews') up to the await: the body is validated
\* and either refused at once or the store call is issued.
Arrive(c) ==
    /\ inflight.req[c].pc = "idle"
    /\ \E id \in MovieIdParams, body \in OverlapBodies, fault \in BOOLEAN :
        /\ fault => ~AddReviewInvalid(body)
        /\ inflight' = [inflight EXCEPT !.req[c] =
              IF AddReviewInvalid(body)
              THEN LET h == AddReviewHandler(id, body, fault)
                   IN  [pc |-> "replied", id |-> id, body |-> body, fault |-> fault,
                        status |-> h.status, json |-> h.json]
              ELSE [pc |-> "awaiting", id |-> id, body |-> body, fault |-> fault,
                    status |-> 0, json |-> EmptyObject]]
    /\ UNCHANGED <<variant, movies, nextMovieId, nextReviewId, last, serverlessVars>>

\* The store applies the awaited findByIdAndUpdate of client c and the
\* handler builds its response from the result.
StoreApply(c) ==
    /\ inflight.req[c].pc = "awaiting"
    /\ LET r == inflight.req[c]
           h == AddReviewHandler(r.id, r.body, r.fault)
       IN  /\ movies' = h.coll
           /\ nextReviewId' = IF h.status = 200 THEN nextReviewId + 1 ELSE nextReviewId
           /\ inflight' = [inflight EXCEPT
                 !.req[c] = [r EXCEPT !.pc = "replied", !.status = h.status,
                                       !.json = h.json],
                 !.oplog = IF h.status = 200 THEN Append(@, c) ELSE @]
    /\ UNCHANGED <<variant, nextMovieId, last, serverlessVars>>

\* res.status(..).json(..): the response of client c is sent.
Deliver(c) ==
    /\ inflight.req[c].pc = "replied"
    /\ inflight' = [inflight EXCEPT !.req[c].pc = "done"]
    /\ UNCHANGED <<variant, movies, nextMovieId, nextReviewId, last, serverlessVars>>

\* router.get('/movies/:id') served while the add-review requests are under
\* way: its findById reads the collection at one moment.
ConcurrentRead ==
    /\ \E c \in Clients : inflight.req[c].pc # "done"
    /\ \E id \in MovieIdParams, fault \in BOOLEAN :
        LET h == GetMovieHandler(id, fault)
        IN  inflight' = [inflight EXCEPT !.read =
                [op |-> "getMovie", params |-> [id |-> id], body |-> EmptyObject,
                 fault |-> fault, status |-> h.status, json |-> h.json,
                 calls |-> h.calls]]
    /\ UNCHANGED <<variant, movies, nextMovieId, nextReviewId, last, serverlessVars>>

ConcNext ==
    \/ \E c \in Clients : Arrive(c)
    \/ \E c \in Clients : StoreApply(c)
    \/ \E c \in Clients : Deliver(c)
    \/ ConcurrentRead

SpecConcurrent == ConcInit /\ [][ConcNext]_vars

\* The serverless entry point: module.exports = async (req, res) =>
\* { await connectDB(); return app(req, res); }.  Each invocation runs up to
\* its await, is resumed when mongoose.connect settles or connectDB has
\* returned, and a finished invocation makes room for a later request.  What
\* app does with the request is the matter of Spec.
ServerlessInit ==
    /\ variant = "app"
    /\ movies = {}
    /\ nextMovieId = 1
    /\ nextReviewId = 1
    /\ last = NoRequest
    /\ inflight = NoInflight
    /\ ColdStart

\* Mutant: connectDB without the isConnected test.
CallsConnectAlways(connected) == TRUE

\* if (isConnected) { return; }
CallsConnect(connected) == ~connected

\* The request arrives: connectDB runs up to its first await.
Invoke(i) ==
    /\ invocation[i].pc = "idle"
    /\ IF CallsConnect(isConnected)
       THEN /\ connectCalls < MaxConnectCalls
            /\ connectCalls' = connectCalls + 1
            /\ invocation' = [invocation EXCEPT ![i] = [pc |-> "connecting", called |-> TRUE]]
       ELSE /\ connectCalls' = connectCalls
            /\ invocation' = [invocation EXCEPT ![i] = [pc |-> "returned", called |-> FALSE]]
    /\ UNCHANGED <<variant, movies, nextMovieId, nextReviewId, last, inflight, isConnected>>

\* await mongoose.connect(..) resolves: isConnected = true.
ConnectResolves(i) ==
    /\ invocation[i].pc = "connecting"
    /\ isConnected' = TRUE
    /\ invocation' = [invocation EXCEPT ![i].pc = "returned"]
    /\ UNCHANGED <<variant, movies, nextMovieId, nextReviewId, last, inflight, connectCalls>>

\* await mongoose.connect(..) rejects: the catch logs and rethrows, and the
\* await of the entry point, which stands in no try, rejects the invocation.
ConnectRejects(i) ==
    /\ invocation[i].pc = "connecting"
    /\ invocation' = [invocation EXCEPT ![i].pc = "failed"]
    /\ UNCHANGED <<variant, movies, nextMovieId, nextReviewId, last, inflight,
                   isConnected, connectCalls>>

\* return app(req, res)
PassToApp(i) ==
    /\ invocation[i].pc = "returned"
    /\ invocation' = [invocation EXCEPT ![i].pc = "served"]
    /\ UNCHANGED <<variant, movies, nextMovieId, nextReviewId, last, inflight,
                   isConnected, connectCalls>>

\* The invocation is over; a later request may take its place.
Finish(i) ==
    /\ invocation[i].pc \in {"served", "failed"}
    /\ invocation' = [invocation EXCEPT ![i] = [pc |-> "idle", called |-> FALSE]]
    /\ UNCHANGED <<variant, movies, nextMovieId, nextReviewId, last, inflight,
                   isConnected, connectCalls>>

ServerlessNext ==
    \/ \E i \in Invocations : Invoke(i)
    \/ \E i \in Invocations : ConnectResolves(i)
    \/ \E i \in Invocations : ConnectRejects(i)
    \/ \E i \in Invocations : PassToApp(i)
    \/ \E i \in Invocations : Finish(i)

SpecServerless == ServerlessInit /\ [][ServerlessNext]_vars


\* ------------------------------------------------------------ claims
MovieIdsOf(coll) == {m.id : m \in coll}
TitlesOf(coll) == {m.title : m \in coll}
MovieOf(coll, id) == CHOOSE m \in coll : m.id = id
ValidTitle(body) == Has(body, "title") /\ Len(body.title) > 0

\* C1: in every reachable state no two stored Movies have the same title and
\* no stored Movie has an empty title.
C1_UniqueNonEmptyTitles ==
    /\ \A m \in movies : Len(m.title) > 0
    /\ \A m1, m2 \in movies : m1.title = m2.title => m1 = m2

\* C1 witness: two Movies are stored and a title update that would have given
\* one of them the other's title has just been refused.
C1_Witness ==
    /\ Cardinality(movies) = 2
    /\ last.op = "updateTitle"
    /\ last.status = 400
    /\ ~last.fault
    /\ last.params.id \in MovieIdsOf(movies)
    /\ ValidTitle(last.body)
    /\ \E m \in movies : m.id # last.params.id /\ m.title = last.body.title

\* C2: a create-movie with a valid title no stored Movie has is answered 201
\* with the new Movie and an empty reviews list, and adds exactly that Movie; a
\* create-movie with a title a stored Movie already has is answered 400 and
\* leaves the collection unchanged, with exactly one Movie of that title.
C2_CreateThenDuplicate ==
    [][(last'.op = "createMovie" /\ ~last'.fault /\ ValidTitle(last'.body)) =>
        IF last'.body.title \in TitlesOf(movies)
        THEN /\ last'.status = 400
             /\ movies' = movies
             /\ Cardinality({m \in movies' : m.title = last'.body.title}) = 1
        ELSE /\ last'.status = 201
             /\ last'.json.title = last'.body.title
             /\ last'.json.reviews = <<>>
             /\ last'.json.id \notin MovieIdsOf(movies)
             /\ movies' = movies \cup {last'.json}]_vars

\* C2 witness: Movies titled T1 and T2 have been created and a further
\* create-movie with T1 has just been refused.
C2_Witness ==
    /\ last.op = "createMovie"
    /\ last.status = 400
    /\ ~last.fault
    /\ ValidTitle(last.body)
    /\ \E m1, m2 \in movies :
        /\ m1.title = last.body.title
        /\ m2.title # m1.title
        /\ m1.id < m2.id


ReviewIdsOf(m) == {m.reviews[i].id : i \in 1..Len(m.reviews)}

ExistsReview(coll, movieId, reviewId) ==
    \E m \in coll : m.id = movieId /\ reviewId \in ReviewIdsOf(m)

ReviewOf(coll, movieId, reviewId) ==
    LET m == MovieOf(coll, movieId)
    IN  m.reviews[CHOOSE i \in 1..Len(m.reviews) : m.reviews[i].id = reviewId]

RatingInRange(rating) ==
    ~NumLess(rating, RatingMin) /\ ~NumGreater(rating, RatingMax)

\* C3: every persisted Review has a rating that is an integer in 1..5.
C3_IntegerRatingInRange ==
    \A m \in movies : \A i \in 1..Len(m.reviews) :
        /\ IsInteger(m.reviews[i].rating)
        /\ m.reviews[i].rating.int \in RatingMin..RatingMax

\* The body of an add-review that C4 is about: rating below 1 or above 5, or
\* rating or comment absent.
C4_RejectedBody(body) ==
    \/ ~Has(body, "rating")
    \/ ~Has(body, "comment")
    \/ NumLess(body.rating, RatingMin)
    \/ NumGreater(body.rating, RatingMax)

\* C4: add-review on an existing Movie with rating below 1 or above 5, or with
\* rating or comment absent, is answered 400 and the Movie's reviews sequence
\* (indeed the whole collection) is unchanged.
C4_InvalidReviewRejected ==
    [][(/\ last'.op = "addReview"
        /\ last'.params.id \in MovieIdsOf(movies)
        /\ C4_RejectedBody(last'.body)) =>
            /\ last'.status = 400
            /\ MovieOf(movies', last'.params.id).reviews
                   = MovieOf(movies, last'.params.id).reviews
            /\ movies' = movies]_vars

\* C4 witness: an add-review with rating 0 on a Movie that already holds a
\* Review has just been refused.
C4_Witness ==
    /\ last.op = "addReview"
    /\ last.status = 400
    /\ Has(last.body, "rating") /\ Has(last.body, "comment")
    /\ last.body.rating = Num(0, FALSE)
    /\ \E m \in movies : m.id = last.params.id /\ Len(m.reviews) > 0

\* C5: update-review on an existing Review: a body with only comment leaves
\* the Review's rating unchanged (and, when answered 200, sets its comment); a
\* body with only an in-range rating leaves its comment unchanged (and, when
\* answered 200, sets its rating); a body with neither is answered 400 and
\* changes nothing.
C5_PatchTouchesOnlySuppliedField ==
    [][(/\ last'.op = "updateReview"
        /\ ExistsReview(movies, last'.params.movieId, last'.params.reviewId)) =>
            LET movieId == last'.params.movieId
                reviewId == last'.params.reviewId
                body == last'.body
                old == ReviewOf(movies, movieId, reviewId)
            IN  /\ ExistsReview(movies', movieId, reviewId)
                /\ (DOMAIN body = {"comment"}) =>
                       /\ ReviewOf(movies', movieId, reviewId).rating = old.rating
                       /\ last'.status = 200 =>
                              ReviewOf(movies', movieId, reviewId).comment = body.comment
                /\ (DOMAIN body = {"rating"} /\ RatingInRange(body.rating)) =>
                       /\ ReviewOf(movies', movieId, reviewId).comment = old.comment
                       /\ last'.status = 200 =>
                              ReviewOf(movies', movieId, reviewId).rating = body.rating
                /\ (DOMAIN body = {}) =>
                       /\ last'.status = 400
                       /\ movies' = movies]_vars

\* C5 witness: an update-review whose body held only a comment has just been
\* answered 200 and the Review carries that comment.
C5_Witness ==
    /\ last.op = "updateReview"
    /\ last.status = 200
    /\ DOMAIN last.body = {"comment"}
    /\ ExistsReview(movies, last.params.movieId, last.params.reviewId)
    /\ ReviewOf(movies, last.params.movieId, last.params.reviewId).comment
           = last.body.comment
    /\ last.json = MovieOf(movies, last.params.movieId)

\* A body update-review accepts: at least one field, rating (if present) in
\* range, comment (if present) non-empty.
ValidPatchBody(body) ==
    /\ DOMAIN body # {}
    /\ Has(body, "rating") => RatingInRange(body.rating)
    /\ Has(body, "comment") => body.comment # ""

\* C6: update-review with a valid body and well-formed ids is answered 404 and
\* changes no Movie whenever no Movie has the Movie id or the Review id
\* matches no Review embedded in that Movie, also when the Review id is that
\* of a Review embedded in another Movie.
C6_PatchAbsentIsNotFound ==
    [][(/\ last'.op = "updateReview"
        /\ ~last'.fault
        /\ ValidPatchBody(last'.body)
        /\ CastsToObjectId(last'.params.movieId)
        /\ CastsToObjectId(last'.params.reviewId)
        /\ ~ExistsReview(movies, last'.params.movieId, last'.params.reviewId)) =>
            /\ last'.status = 404
            /\ movies' = movies]_vars

\* C6 witness: an update-review addressed to an existing Movie with the id of
\* a Review embedded in another Movie has just been answered 404.
C6_Witness ==
    /\ last.op = "updateReview"
    /\ last.status = 404
    /\ ValidPatchBody(last.body)
    /\ last.params.movieId \in MovieIdsOf(movies)
    /\ \E m \in movies :
        /\ m.id # last.params.movieId
        /\ last.params.reviewId \in ReviewIdsOf(m)

\* C7: delete-review on an existing Movie with a well-formed Review id that
\* matches none of its embedded Reviews is answered 200, and the returned and
\* the stored reviews sequence are the one before the request.
C7_DeleteMissingReviewIsNoOp ==
    [][(/\ last'.op = "deleteReview"
        /\ ~last'.fault
        /\ last'.params.movieId \in MovieIdsOf(movies)
        /\ CastsToObjectId(last'.params.reviewId)
        /\ last'.params.reviewId
               \notin ReviewIdsOf(MovieOf(movies, last'.params.movieId))) =>
            /\ last'.status = 200
            /\ last'.json.reviews = MovieOf(movies, last'.params.movieId).reviews
            /\ MovieOf(movies', last'.params.movieId).reviews
                   = MovieOf(movies, last'.params.movieId).reviews
            /\ movies' = movies]_vars

\* C7 witness: a delete-review naming a Review id that was never handed out,
\* on a Movie that holds a Review, has just been answered 200.
C7_Witness ==
    /\ last.op = "deleteReview"
    /\ last.status = 200
    /\ last.params.reviewId >= nextReviewId
    /\ \E m \in movies :
        /\ m.id = last.params.movieId
        /\ Len(m.reviews) > 0
        /\ last.json.reviews = m.reviews


\* The ids of the Movies that were created and have since been deleted: ids
\* are handed out in increasing order and never again.
DeletedIds(coll, nextId) == {i \in 1..(nextId - 1) : i \notin MovieIdsOf(coll)}

AddressedOps ==
    {"getMovie", "listReviews", "addReview", "updateReview", "deleteReview",
     "deleteMovie"}

TargetId(l) == IF Has(l.params, "id") THEN l.params.id ELSE l.params.movieId

ReviewIdWellFormed(l) ==
    Has(l.params, "reviewId") => CastsToObjectId(l.params.reviewId)

\* C8 as stated: once Movie I has been deleted, every get-movie, list-reviews,
\* add-review, update-review, delete-review and delete-movie addressed to I
\* that the store serves is answered 404.
C8_DeletedAlwaysNotFound ==
    (/\ last.op \in AddressedOps
     /\ TargetId(last) \in DeletedIds(movies, nextMovieId)
     /\ ~(last.op = "deleteMovie" /\ last.status = 200)
     /\ ~last.fault
     /\ ReviewIdWellFormed(last)) =>
        last.status = 404

\* The status of a request addressed to a deleted Movie: the body of
\* add-review and update-review is validated before the Movie is looked up.
C8_StatusForDeleted(l) ==
    IF l.op = "addReview" /\ C4_RejectedBody(l.body) THEN 400
    ELSE IF l.op = "updateReview" /\ ~ValidPatchBody(l.body) THEN 400
    ELSE 404

\* C8 amended: a deleted Movie stays deleted; every request addressed to it
\* leaves the collection unchanged and is never answered with a success
\* status; get-movie, list-reviews, delete-review and delete-movie are
\* answered 404, add-review and update-review are answered 404 when their
\* body is valid and 400 when it is not.
C8_DeletedStaysUnreachable ==
    [][/\ DeletedIds(movies, nextMovieId) \subseteq DeletedIds(movies', nextMovieId')
       /\ (/\ last'.op \in AddressedOps
           /\ TargetId(last') \in DeletedIds(movies, nextMovieId)) =>
               /\ last'.status \notin {200, 201}
               /\ movies' = movies
               /\ (~last'.fault /\ ReviewIdWellFormed(last')) =>
                      last'.status = C8_StatusForDeleted(last')]_vars

\* C8 witness: a Review was added, its Movie was deleted and an update-review
\* with a valid body addressed to the deleted Movie and to an id that was
\* handed out to a Review has just been answered 404.
C8_Witness ==
    /\ last.op = "updateReview"
    /\ last.status = 404
    /\ ValidPatchBody(last.body)
    /\ last.params.movieId \in DeletedIds(movies, nextMovieId)
    /\ last.params.reviewId \in 1..(nextReviewId - 1)
    /\ \A m \in movies : last.params.reviewId \notin ReviewIdsOf(m)

\* C9: list-movies served by the store is answered 200 with exactly the
\* stored Movies, each once, in non-decreasing order of title.
C9_ListSortedByTitle ==
    last.op = "listMovies" =>
        /\ last.status = 200 <=> ~last.fault
        /\ last.status = 200 =>
            /\ Len(last.json) = Cardinality(movies)
            /\ {last.json[i] : i \in 1..Len(last.json)} = movies
            /\ \A i, j \in 1..Len(last.json) :
                   i < j => LexLeq(last.json[i].title, last.json[j].title)

\* C9 witness: two Movies are listed and the one created later comes first.
C9_Witness ==
    /\ last.op = "listMovies"
    /\ last.status = 200
    /\ Len(last.json) = 2
    /\ last.json[1].id > last.json[2].id
    /\ LexLess(last.json[1].title, last.json[2].title)

\* C10 as stated: get-movie-by-id is answered 404 when the id is malformed
\* and when it is well-formed but no Movie has it; 500 only for a store error.
C10_MalformedIsNotFound ==
    last.op = "getMovie" =>
        /\ (~last.fault /\ last.params.id \notin MovieIdsOf(movies)) => last.status = 404
        /\ last.status = 500 => last.fault

\* C10 amended: get-movie-by-id is answered 404 exactly when the id is
\* well-formed, the store call succeeds and no Movie has the id; 500 exactly
\* when the store call fails or the id is malformed; 200 with the stored
\* Movie otherwise.
C10_GetMovieStatus ==
    last.op = "getMovie" =>
        /\ last.status \in {200, 404, 500}
        /\ last.status = 500 <=> (last.fault \/ ~CastsToObjectId(last.params.id))
        /\ last.status = 404 <=>
               /\ ~last.fault
               /\ CastsToObjectId(last.params.id)
               /\ last.params.id \notin MovieIdsOf(movies)
        /\ last.status = 200 => last.json = MovieOf(movies, last.params.id)

\* C10 witness: a get-movie with a malformed id, served by a working store,
\* has just been answered 500.
C10_Witness ==
    /\ last.op = "getMovie"
    /\ ~CastsToObjectId(last.params.id)
    /\ ~last.fault
    /\ last.status = 500

\* C11: whenever the store call of a request fails (the store is unreachable),
\* the request is answered with the internal-error status 500.
C11_StoreFailureIs500 ==
    last.fault => last.status = 500

\* C12: every persisted Review has a non-empty comment.
C12_CommentNonEmpty ==
    \A m \in movies : \A i \in 1..Len(m.reviews) : m.reviews[i].comment # ""

\* C13: update-title with a missing or empty title is answered 400; with a
\* valid title on an id no Movie has, 404; with the title of another Movie,
\* 400; in these three cases the collection is unchanged.  Otherwise it is
\* answered 200 and only the title of the addressed Movie changes: its id and
\* reviews, and every other Movie, are as before.
C13_UpdateTitleOutcomes ==
    [][(last'.op = "updateTitle") =>
        LET id == last'.params.id
            body == last'.body
        IN  /\ ~ValidTitle(body) => (last'.status = 400 /\ movies' = movies)
            /\ (ValidTitle(body) /\ ~last'.fault /\ CastsToObjectId(id)) =>
                   IF id \notin MovieIdsOf(movies)
                   THEN last'.status = 404 /\ movies' = movies
                   ELSE IF \E m \in movies : m.id # id /\ m.title = body.title
                   THEN last'.status = 400 /\ movies' = movies
                   ELSE LET old == MovieOf(movies, id)
                            new == [id |-> old.id, title |-> body.title,
                                    reviews |-> old.reviews]
                        IN  /\ last'.status = 200
                            /\ last'.json = new
                            /\ movies' = (movies \ {old}) \cup {new}]_vars

\* C13 witness: the title of a Movie that holds a Review has just been
\* updated while another Movie is stored.
C13_Witness ==
    /\ last.op = "updateTitle"
    /\ last.status = 200
    /\ Cardinality(movies) = 2
    /\ \E m \in movies :
        /\ m.id = last.params.id
        /\ m.title = last.body.title
        /\ Len(m.reviews) > 0

MutatingOps ==
    {"createMovie", "updateTitle", "addReview", "updateReview", "deleteReview"}

\* C14: a successful create-movie, update-title, add-review, update-review or
\* delete-review returns the addressed Movie exactly as it is stored after
\* the request; a successful delete-movie returns the Movie, reviews
\* included, exactly as it was stored before the request, and removes it.
C14_ResponseIsStoredMovie ==
    [][/\ (last'.op \in MutatingOps /\ last'.status \in {200, 201}) =>
              /\ last'.json \in movies'
              /\ IF last'.op = "createMovie"
                 THEN last'.json.id \notin MovieIdsOf(movies)
                 ELSE last'.json.id = TargetId(last')
       /\ (last'.op = "deleteMovie" /\ last'.status = 200) =>
              /\ last'.json \in movies
              /\ last'.json.id = last'.params.id
              /\ movies' = movies \ {last'.json}]_vars

\* C14 witness: a Movie that held a Review has just been deleted and the
\* response carries it with its Review.
C14_Witness ==
    /\ last.op = "deleteMovie"
    /\ last.status = 200
    /\ Len(last.json.reviews) > 0
    /\ last.json.id = last.params.id
    /\ last.json.id \notin MovieIdsOf(movies)

C15_FailsValidation(l) ==
    \/ l.op \in {"createMovie", "updateTitle"} /\ ~ValidTitle(l.body)
    \/ l.op = "addReview" /\ C4_RejectedBody(l.body)
    \/ /\ l.op = "updateReview"
       /\ \/ ~Has(l.body, "rating") /\ ~Has(l.body, "comment")
          \/ Has(l.body, "rating") /\ ~RatingInRange(l.body.rating)

\* C15: a create-movie or update-title request without a title, an add-review
\* request with a missing field or an out-of-range rating, and an
\* update-review request with no field or an out-of-range rating are answered
\* 400 without a single store call, and the store (the collection and the
\* identifiers it would hand out next) is unchanged.
C15_ValidationFailureNoStoreCall ==
    [][C15_FailsValidation(last') =>
          /\ last'.status = 400
          /\ last'.calls = 0
          /\ movies' = movies
          /\ nextMovieId' = nextMovieId
          /\ nextReviewId' = nextReviewId]_vars

\* C15 witness: an update-review with rating 6, addressed to a Review that
\* exists, has just been refused without a store call.
C15_Witness ==
    /\ last.op = "updateReview"
    /\ Has(last.body, "rating")
    /\ last.body.rating = Num(6, FALSE)
    /\ ExistsReview(movies, last.params.movieId, last.params.reviewId)
    /\ last.status = 400
    /\ last.calls = 0

\* C16: list-reviews with the id of an existing Movie is answered 200 with
\* movieId equal to the requested id, the Movie's stored title and its stored
\* reviews sequence; with the id of no Movie it is answered 404. A Movie is
\* created with the empty reviews sequence and a Movie's sequence only grows
\* by a successful add-review addressed to it, so a Movie to which no review
\* was added lists the empty sequence.
C16_ListReviewsOutcome ==
    [][/\ (/\ last'.op = "listReviews"
           /\ ~last'.fault
           /\ CastsToObjectId(last'.params.id)) =>
              IF last'.params.id \in MovieIdsOf(movies')
              THEN /\ last'.status = 200
                   /\ last'.json =
                        [movieId |-> last'.params.id,
                         title   |-> MovieOf(movies', last'.params.id).title,
                         reviews |-> MovieOf(movies', last'.params.id).reviews]
              ELSE last'.status = 404
       /\ (last'.op = "createMovie" /\ last'.status = 201) =>
              last'.json.reviews = <<>>
       /\ \A m \in movies : \A n \in movies' :
              (n.id = m.id /\ Len(n.reviews) > Len(m.reviews)) =>
                  /\ last'.op = "addReview"
                  /\ last'.status = 200
                  /\ last'.params.id = m.id]_vars

\* C16 witness: list-reviews has just returned the two stored Reviews of a
\* Movie, in stored order.
C16_Witness ==
    /\ last.op = "listReviews"
    /\ last.status = 200
    /\ Len(last.json.reviews) = 2
    /\ last.json.reviews = MovieOf(movies, last.params.id).reviews
    /\ last.json.movieId = last.params.id

\* C17: every stored Review carries an identifier, and no other stored Review,
\* in the same Movie or in another one, carries the same identifier, so a
\* (Movie id, Review id) pair matches at most one embedded Review.
C17_EveryReviewHasUniqueId ==
    \A m \in movies : \A i \in 1..Len(m.reviews) :
        /\ Has(m.reviews[i], "id")
        /\ \A n \in movies : \A j \in 1..Len(n.reviews) :
               (Has(n.reviews[j], "id") /\ n.reviews[j].id = m.reviews[i].id)
                   => (n = m /\ j = i)

\* C18: an update-review answered 200 addressed a Movie that holds exactly one
\* Review with the given id; that Review keeps its id and takes the fields the
\* body supplies, its other field is unchanged; every other Review of the
\* Movie keeps its value and its position; the Movie keeps its id and title;
\* every other Movie is unchanged.
C18_UpdateReviewFrame ==
    [][(last'.op = "updateReview" /\ last'.status = 200) =>
          LET movieId == last'.params.movieId
              reviewId == last'.params.reviewId
              body == last'.body
          IN  /\ movieId \in MovieIdsOf(movies)
              /\ movieId \in MovieIdsOf(movies')
              /\ LET old == MovieOf(movies, movieId)
                     new == MovieOf(movies', movieId)
                 IN  /\ Cardinality(ReviewIndexes(old, reviewId)) = 1
                     /\ movies' \ {new} = movies \ {old}
                     /\ new.id = old.id
                     /\ new.title = old.title
                     /\ Len(new.reviews) = Len(old.reviews)
                     /\ \A i \in 1..Len(old.reviews) :
                          IF old.reviews[i].id = reviewId
                          THEN /\ new.reviews[i].id = reviewId
                               /\ new.reviews[i].rating =
                                    IF Has(body, "rating") THEN body.rating
                                    ELSE old.reviews[i].rating
                               /\ new.reviews[i].comment =
                                    IF Has(body, "comment") THEN body.comment
                                    ELSE old.reviews[i].comment
                          ELSE new.reviews[i] = old.reviews[i]]_vars

\* C18 witness: an update-review that supplied a rating has just succeeded on
\* a Movie with two Reviews, and the Review it did not address holds another
\* rating.
C18_Witness ==
    /\ last.op = "updateReview"
    /\ last.status = 200
    /\ Has(last.body, "rating")
    /\ Len(last.json.reviews) = 2
    /\ last.json = MovieOf(movies, last.params.movieId)
    /\ \E i \in 1..2 :
          /\ last.json.reviews[i].id # last.params.reviewId
          /\ last.json.reviews[i].rating # last.body.rating

\* C19: a successful add-review puts the new Review after the Reviews the
\* Movie already held, which keep their values and order; a successful
\* update-review keeps the length of the sequence and the Review id at every
\* position; a successful delete-review leaves the Reviews whose id differs
\* from the given one, in their previous order; every other step leaves the
\* reviews sequence of every Movie that remains as it was.
C19_ReviewOrder ==
    [][\A old \in movies : \A new \in movies' :
          new.id = old.id =>
              IF /\ last'.op = "addReview"
                 /\ last'.status = 200
                 /\ last'.params.id = old.id
              THEN /\ Len(new.reviews) = Len(old.reviews) + 1
                   /\ SubSeq(new.reviews, 1, Len(old.reviews)) = old.reviews
                   /\ new.reviews[Len(new.reviews)].rating = last'.body.rating
                   /\ new.reviews[Len(new.reviews)].comment = last'.body.comment
              ELSE IF /\ last'.op = "updateReview"
                      /\ last'.status = 200
                      /\ last'.params.movieId = old.id
              THEN /\ Len(new.reviews) = Len(old.reviews)
                   /\ \A i \in 1..Len(old.reviews) :
                          new.reviews[i].id = old.reviews[i].id
              ELSE IF /\ last'.op = "deleteReview"
                      /\ last'.status = 200
                      /\ last'.params.movieId = old.id
              THEN new.reviews =
                       SelectSeq(old.reviews,
                                 LAMBDA r : r.id # last'.params.reviewId)
              ELSE new.reviews = old.reviews]_vars

\* C19 witness: a second Review, different from the first, has just been
\* appended to a Movie and stands after the first.
C19_Witness ==
    /\ last.op = "addReview"
    /\ last.status = 200
    /\ Len(last.json.reviews) = 2
    /\ last.json = MovieOf(movies, last.params.id)
    /\ last.json.reviews[2].rating = last.body.rating
    /\ last.json.reviews[2].comment = last.body.comment
    /\ last.json.reviews[1].rating # last.body.rating

\* Both clients sent a valid add-review for the same Movie, which existed
\* when the requests started, neither store call failed, and both requests
\* have completed.
C20_BothCompleted ==
    /\ \A c \in Clients :
          /\ inflight.req[c].pc = "done"
          /\ ~C4_RejectedBody(inflight.req[c].body)
          /\ ~inflight.req[c].fault
          /\ inflight.req[c].id \in MovieIdsOf(inflight.before)
    /\ inflight.req[1].id = inflight.req[2].id

\* C20: once two overlapping valid add-review requests for the same existing
\* Movie have completed, both were answered 200 and the Movie's reviews
\* sequence is the sequence it held before, followed by the two new Reviews,
\* each once, in the order in which the store applied the two appends; and a
\* read served meanwhile saw the previous sequence followed by zero, one or two
\* whole new Reviews, a prefix of what the store holds.
C20_ConcurrentAppends ==
    /\ C20_BothCompleted =>
          LET id == inflight.req[1].id
              prev == MovieOf(inflight.before, id).reviews
              cur == MovieOf(movies, id).reviews
          IN  /\ \A c \in Clients : inflight.req[c].status = 200
              /\ Len(inflight.oplog) = 2
              /\ inflight.oplog[1] # inflight.oplog[2]
              /\ Len(cur) = Len(prev) + 2
              /\ SubSeq(cur, 1, Len(prev)) = prev
              /\ \A k \in 1..2 :
                    /\ cur[Len(prev) + k].rating
                         = inflight.req[inflight.oplog[k]].body.rating
                    /\ cur[Len(prev) + k].comment
                         = inflight.req[inflight.oplog[k]].body.comment
    /\ (inflight.read.status = 200 /\ inflight.before # {}) =>
          LET id == inflight.read.params.id
              prev == MovieOf(inflight.before, id).reviews
              cur == MovieOf(movies, id).reviews
              seen == inflight.read.json.reviews
          IN  /\ Len(prev) <= Len(seen)
              /\ Len(seen) <= Len(cur)
              /\ seen = SubSeq(cur, 1, Len(seen))
              /\ SubSeq(seen, 1, Len(prev)) = prev

\* C20 witness: both requests completed, the append of client 2 was applied
\* first, the two Reviews differ, the Movie already held a Review, and a read
\* served in between saw only the first of the two appends.
C20_Witness ==
    /\ C20_BothCompleted
    /\ inflight.oplog = <<2, 1>>
    /\ inflight.req[1].body # inflight.req[2].body
    /\ Len(MovieOf(inflight.before, inflight.req[1].id).reviews) = 1
    /\ Len(MovieOf(movies, inflight.req[1].id).reviews) = 3
    /\ inflight.read.status = 200
    /\ Len(inflight.read.json.reviews) = 2

\* C21: in the serverless entry point, once isConnected is true it never
\* becomes false again; an invocation that starts while isConnected is true
\* returns from connectDB without calling mongoose.connect, and an invocation
\* whose connectDB has returned is passed on to the app; a rejected
\* mongoose.connect leaves a false isConnected false, and an invocation that
\* starts while isConnected is false calls mongoose.connect.
C21_ConnectOnceThenReuse ==
    [][/\ isConnected => isConnected'
       /\ \A i \in Invocations :
            /\ (invocation[i].pc = "idle" /\ invocation'[i].pc # "idle") =>
                  IF isConnected
                  THEN /\ connectCalls' = connectCalls
                       /\ invocation'[i].pc = "returned"
                       /\ ~invocation'[i].called
                  ELSE /\ connectCalls' = connectCalls + 1
                       /\ invocation'[i].pc = "connecting"
            /\ (invocation[i].pc = "returned" /\ invocation'[i].pc # "returned") =>
                  invocation'[i].pc = "served"
            /\ (invocation[i].pc = "connecting" /\ invocation'[i].pc = "failed") =>
                  isConnected' = isConnected
            /\ (invocation[i].pc = "connecting" /\ invocation'[i].pc = "returned") =>
                  isConnected']_vars

\* C21 witness: one mongoose.connect was rejected, a later one succeeded, and
\* an invocation that started afterwards has been passed on to the app
\* without calling mongoose.connect.
C21_Witness ==
    /\ isConnected
    /\ connectCalls = 2
    /\ \E i \in Invocations : invocation[i].pc = "failed"
    /\ \E i \in Invocations : invocation[i].pc = "served" /\ ~invocation[i].called
    /\ \A i \in Invocations : invocation[i].pc # "connecting"

\* C22: mongoose.connect is never under way for two invocations at once, and
\* as long as no invocation has got past its connection attempt it has been
\* called at most once.
C22_SingleConnectAttempt ==
    /\ Cardinality({i \in Invocations : invocation[i].pc = "connecting"}) <= 1
    /\ (\A i \in Invocations : invocation[i].pc \in {"idle", "connecting"})
          => connectCalls <= 1

\* C23: an add-review, update-title or update-review whose body fails the
\* handler's validation and whose Movie id is malformed or the id of no Movie
\* is answered 400; and whenever one of these operations is answered 404 its
\* body passed the validation.
C23_ValidationBeforeExistence ==
    last.op \in {"addReview", "updateTitle", "updateReview"} =>
        /\ (C15_FailsValidation(last) /\ TargetId(last) \notin MovieIdsOf(movies))
               => last.status = 400
        /\ last.status = 404 => ~C15_FailsValidation(last)

\* C23 witness: an update-title without a usable title, addressed to a
\* well-formed id that no Movie of the non-empty collection has, has just
\* been answered 400.
C23_Witness ==
    /\ last.op = "updateTitle"
    /\ ~ValidTitle(last.body)
    /\ CastsToObjectId(last.params.id)
    /\ movies # {}
    /\ last.params.id \notin MovieIdsOf(movies)
    /\ last.status = 400

====
